---- MODULE Spec2Model ----
(***************************************************************************)
(* The range-aware streaming gateway of plugins/route.py: link parsing,    *)
(* capability-hash check, session selection, ByteStreamer cache, Range     *)
(* resolution, chunk plan and the chunk sequencer.                         *)
(*                                                                         *)
(* Python strings are sequences of one-character strings, so that regex    *)
(* matching, str.replace, str.split, int() and slicing are computed.       *)
(* Object bytes are tagged with their position in the object, so a body is *)
(* the sequence of positions it carries.                                   *)
(***************************************************************************)
EXTENDS Integers, Sequences, FiniteSets, TLC

\* ------------------------------------------------------------------ bounds

\* Largest object size (bytes) the upstream reports in the model.
MaxSize == 9

\* The chunk size of the runs whose bodies are enumerated byte by byte: the plan
\* arithmetic and the sequencer take the chunk size as a parameter, and these
\* runs pass a small one so that an object spans several chunks.
ChunkSize == 4

\* Line 205: the chunk size of the program, 1 MiB.
chunk_size == 1024 * 1024

\* Sessions in the pool and the largest workload counter of an initial state.
NumSessions == 3
MaxLoad == 3

\* ByteStreamer objects the model lets the process construct.
MaxCreated == 3

\* --------------------------------------------------------- Python values

\* None where a string is expected (query.get("hash"), headers.get("Range")).
None == <<"<None>">>

\* None where an integer is expected (file_id = None).
NoneInt == -1

\* bool(s) of an optional string: None and "" are falsy.
Truthy(s) == s # None /\ s # <<>>

\* bool(n) of an optional integer: None and 0 are falsy.
TruthyInt(n) == n # NoneInt /\ n # 0

Digits == <<"0", "1", "2", "3", "4", "5", "6", "7", "8", "9">>

IsDigit(c) == \E i \in 1..10 : Digits[i] = c

DigitVal(c) == (CHOOSE i \in 1..10 : Digits[i] = c) - 1

\* The class [a-zA-Z0-9_-] of the combined-link regex.
TokenChars ==
    { "a", "b", "c", "d", "e", "f", "g", "h", "i", "j", "k", "l", "m",
      "n", "o", "p", "q", "r", "s", "t", "u", "v", "w", "x", "y", "z",
      "A", "B", "C", "D", "E", "F", "G", "H", "I", "J", "K", "L", "M",
      "N", "O", "P", "Q", "R", "S", "T", "U", "V", "W", "X", "Y", "Z",
      "_", "-" } \cup { Digits[i] : i \in 1..10 }

IsTokenChar(c) == c \in TokenChars

Min2(a, b) == IF a < b THEN a ELSE b

\* s[a:b] for 0 <= a, 0 <= b: Python clips both ends to the length.
Slice(s, a, b) ==
    LET hi == Min2(b, Len(s))
    IN  IF a >= hi THEN <<>> ELSE SubSeq(s, a + 1, hi)

\* s[a:]
SliceFrom(s, a) == Slice(s, a, Len(s))

AllDigits(s) == \A i \in 1..Len(s) : IsDigit(s[i])

RECURSIVE DigitsValue(_)
\* The value of a non-empty run of decimal digits.
DigitsValue(s) ==
    IF Len(s) = 0 THEN 0
    ELSE 10 * DigitsValue(SubSeq(s, 1, Len(s) - 1)) + DigitVal(s[Len(s)])

RECURSIVE StripLeft(_)
StripLeft(s) == IF Len(s) > 0 /\ s[1] = " " THEN StripLeft(Tail(s)) ELSE s

RECURSIVE StripRight(_)
StripRight(s) ==
    IF Len(s) > 0 /\ s[Len(s)] = " " THEN StripRight(SubSeq(s, 1, Len(s) - 1)) ELSE s

\* int(s): surrounding whitespace is stripped, one sign is allowed, the rest must
\* be a non-empty run of digits; anything else raises ValueError.
\* (Digit-group underscores are not part of the model's alphabet.)
PyInt(s) ==
    LET t == StripRight(StripLeft(s))
        signed == Len(t) > 0 /\ t[1] \in {"+", "-"}
        d == IF signed THEN Tail(t) ELSE t
    IN  IF Len(d) > 0 /\ AllDigits(d)
        THEN [ok |-> TRUE,
              val |-> IF signed /\ t[1] = "-" THEN 0 - DigitsValue(d) ELSE DigitsValue(d)]
        ELSE [ok |-> FALSE, val |-> 0]

RECURSIVE NatStr(_)
NatStr(n) == IF n < 10 THEN <<Digits[n + 1]>> ELSE NatStr(n \div 10) \o <<Digits[(n % 10) + 1]>>

\* str(n) / f"{n}" of an integer.
PyStr(n) == IF n < 0 THEN <<"-">> \o NatStr(0 - n) ELSE NatStr(n)

IsPrefixAt(s, i, p) ==
    /\ i + Len(p) - 1 <= Len(s)
    /\ \A k \in 1..Len(p) : s[i + k - 1] = p[k]

RECURSIVE ReplaceFrom(_, _, _, _)
ReplaceFrom(s, i, old, new) ==
    IF i > Len(s) THEN <<>>
    ELSE IF IsPrefixAt(s, i, old)
         THEN new \o ReplaceFrom(s, i + Len(old), old, new)
         ELSE <<s[i]>> \o ReplaceFrom(s, i + 1, old, new)

\* s.replace(old, new) for a non-empty old: every occurrence, left to right.
PyReplace(s, old, new) == ReplaceFrom(s, 1, old, new)

RECURSIVE SplitFrom(_, _, _, _)
SplitFrom(s, i, sep, cur) ==
    IF i > Len(s) THEN <<cur>>
    ELSE IF s[i] = sep
         THEN <<cur>> \o SplitFrom(s, i + 1, sep, <<>>)
         ELSE SplitFrom(s, i + 1, sep, Append(cur, s[i]))

\* s.split(sep) for a one-character sep: the pieces, empty ones included.
PySplit(s, sep) == SplitFrom(s, 1, sep, <<>>)

BytesEq == <<"b", "y", "t", "e", "s", "=">>

BytesSp == <<"b", "y", "t", "e", "s", " ">>

\* ------------------------------------------------------------ Link Codec

\* re.search(r"^([a-zA-Z0-9_-]{6})(\d+)$", path): six token characters followed
\* by one or more digits and nothing else.
MatchCombined(path) ==
    /\ Len(path) >= 7
    /\ \A i \in 1..6 : IsTokenChar(path[i])
    /\ AllDigits(SliceFrom(path, 6))

RECURSIVE DigitRunEnd(_, _)
\* The last index of the maximal digit run of path that starts at index i.
DigitRunEnd(path, i) ==
    IF i < Len(path) /\ IsDigit(path[i + 1]) THEN DigitRunEnd(path, i + 1) ELSE i

DigitsAnywhere(path) == SelectSeq(path, IsDigit)

\* group(1) of re.search(r"(\d+)(?:\/\S+)?", path): the leftmost maximal run of
\* digits anywhere in path, or the empty string when path holds no digit.
FirstDigitRun(path) ==
    IF \E i \in 1..Len(path) : IsDigit(path[i])
    THEN LET i == CHOOSE j \in 1..Len(path) :
                      /\ IsDigit(path[j])
                      /\ \A k \in 1..(j - 1) : ~IsDigit(path[k])
         IN  SubSeq(path, i, DigitRunEnd(path, i))
    ELSE <<>>

\* The query hash wins over the path-embedded one whenever it is truthy.
PathHashWins(query_hash, path_hash) == path_hash

\* Lines 103-109: the hash of a combined link.
CombinedHash(query_hash, path_hash) ==
    IF ~Truthy(query_hash) THEN path_hash ELSE query_hash

\* extract_file_details: (file_id, secure_hash) from the path and the query.
extract_file_details(path, query_hash) ==
    IF MatchCombined(path)
    THEN [file_id |-> DigitsValue(SliceFrom(path, 6)),
          secure_hash |-> CombinedHash(query_hash, Slice(path, 0, 6))]
    ELSE LET run == FirstDigitRun(path)
         IN  [file_id |-> IF run # <<>> THEN DigitsValue(run) ELSE NoneInt,
              secure_hash |-> query_hash]

\* ---------------------------------------------------- Capability Validator

HashCheckSkipped(unique_id, secure_hash) == TRUE

HashWholeId(unique_id, secure_hash) == unique_id = secure_hash

\* Line 147: file_properties.unique_id[:6] != secure_hash raises InvalidHash.
HashMatches(unique_id, secure_hash) == Slice(unique_id, 0, 6) = secure_hash

\* ------------------------------------------------- Session Pool and cache

\* multi_clients: the client object of each session index.
multi_clients == [i \in 0..(NumSessions - 1) |-> [client |-> i]]

RECURSIVE MinScan(_, _, _)
\* Python's min over an iterable with a key: the running best is replaced only
\* by a strictly smaller key, so the first minimal element wins.
MinScan(wl, i, best) ==
    IF i > Len(wl) THEN wl[best][1]
    ELSE MinScan(wl, i + 1, IF wl[i][2] < wl[best][2] THEN i ELSE best)

RECURSIVE MinScanLast(_, _, _)
MinScanLast(wl, i, best) ==
    IF i > Len(wl) THEN wl[best][1]
    ELSE MinScanLast(wl, i + 1, IF wl[i][2] <= wl[best][2] THEN i ELSE best)

SelectLastMin(wl) == MinScanLast(wl, 2, 1)

\* Line 129: index = min(work_loads, key=work_loads.get). work_loads is a dict:
\* a sequence of <<index, workload>> pairs in insertion order.
SelectIndex(wl) == MinScan(wl, 2, 1)

CacheNeverHits(cache, client) == FALSE

\* Line 136: faster_client in class_cache.
InCache(cache, client) == client \in DOMAIN cache

\* ---------------------------------------------------------- Range Resolver

UnsatNoOrder(from_bytes, until_bytes, file_size) ==
    ~(0 <= from_bytes /\ from_bytes < file_size /\ 0 <= until_bytes /\ until_bytes < file_size)

UnsatNoUntilBound(from_bytes, until_bytes, file_size) ==
    ~(0 <= from_bytes /\ from_bytes < file_size /\ from_bytes <= until_bytes)

\* Line 189: the range is not satisfiable.
Unsatisfiable(from_bytes, until_bytes, file_size) ==
    ~(/\ 0 <= from_bytes /\ from_bytes < file_size
      /\ 0 <= until_bytes /\ until_bytes < file_size
      /\ from_bytes <= until_bytes)

OpenEndOneByte(from_bytes, file_size) == from_bytes

\* Line 187: the end of an open-ended range.
OpenEnd(from_bytes, file_size) == file_size - 1

\* Lines 182-187: the try block's parse. ok is FALSE when int() raises ValueError;
\* from_bytes is then the value assigned before the raise, if any.
ParseRange(range_header, file_size) ==
    LET range_parts == PySplit(PyReplace(range_header, BytesEq, <<>>), "-")
        first == PyInt(range_parts[1])
        hasEnd == Len(range_parts) > 1 /\ range_parts[2] # <<>>
        second == IF hasEnd THEN PyInt(range_parts[2]) ELSE [ok |-> TRUE, val |-> 0]
    IN  IF ~first.ok
        THEN [ok |-> FALSE, from_bytes |-> 0, until_bytes |-> file_size - 1]
        ELSE IF ~second.ok
        THEN [ok |-> FALSE, from_bytes |-> first.val, until_bytes |-> file_size - 1]
        ELSE [ok |-> TRUE, from_bytes |-> first.val,
              until_bytes |-> IF hasEnd THEN second.val ELSE OpenEnd(first.val, file_size)]

KeepParsedStart(parsed, file_size) ==
    [status |-> 200, from_bytes |-> parsed.from_bytes, until_bytes |-> file_size - 1]

ValueErrorKeeps206(parsed, file_size) ==
    [status |-> 206, from_bytes |-> 0, until_bytes |-> file_size - 1]

\* Lines 196-201: except ValueError.
OnValueError(parsed, file_size) ==
    [status |-> 200, from_bytes |-> 0, until_bytes |-> file_size - 1]

\* Lines 174-201: status and byte range of the response.
ResolveRange(range_header, file_size) ==
    IF ~Truthy(range_header)
    THEN [status |-> 200, from_bytes |-> 0, until_bytes |-> file_size - 1]
    ELSE LET parsed == ParseRange(range_header, file_size)
         IN  IF ~parsed.ok THEN OnValueError(parsed, file_size)
             ELSE IF Unsatisfiable(parsed.from_bytes, parsed.until_bytes, file_size)
             THEN [status |-> 416, from_bytes |-> parsed.from_bytes,
                   until_bytes |-> parsed.until_bytes]
             ELSE [status |-> 206, from_bytes |-> parsed.from_bytes,
                   until_bytes |-> parsed.until_bytes]

\* ------------------------------------------------------------- Chunk plan

\* Line 206.
AlignedOffset(from_bytes, cs) == from_bytes - (from_bytes % cs)

FirstCutZero(from_bytes, offset) == 0

\* Line 207.
FirstPartCut(from_bytes, offset) == from_bytes - offset

LastCutOffByOne(until_bytes, cs) ==
    IF until_bytes % cs # 0 THEN until_bytes % cs ELSE cs

\* Lines 211-212.
LastPartCut(until_bytes, cs) ==
    LET last_part_offset_in_chunk == (until_bytes + 1) % cs
    IN  IF last_part_offset_in_chunk # 0 THEN last_part_offset_in_chunk ELSE cs

PartCountFromStart(until_bytes, offset, cs) == ((until_bytes - offset) \div cs)

\* Line 216.
PartCount(until_bytes, offset, cs) == (until_bytes \div cs) - (offset \div cs) + 1

\* Lines 203-216: the arguments media_streamer passes to yield_file.
ChunkPlan(from_bytes, until_bytes, cs) ==
    LET offset == AlignedOffset(from_bytes, cs)
    IN  [offset |-> offset,
         first_part_cut |-> FirstPartCut(from_bytes, offset),
         last_part_cut |-> LastPartCut(until_bytes, cs),
         part_count |-> PartCount(until_bytes, offset, cs),
         chunk_size |-> cs]

\* --------------------------------------------- Upstream and Chunk Sequencer

\* The bytes of an object of the given size, each tagged with its position.
FileBytes(file_size) == [i \in 1..file_size |-> i - 1]

\* fetch_chunk(session, id, offset, limit): at most limit bytes from offset.
FetchChunk(file_size, offset, limit) == Slice(FileBytes(file_size), offset, offset + limit)

\* What the sequencer emits for the chunk it has just fetched: the only chunk is
\* cut on both sides, the first on the left, the last on the right, the others
\* are passed on verbatim.
EmitPart(chunk, current_part, plan) ==
    IF plan.part_count = 1 THEN Slice(chunk, plan.first_part_cut, plan.last_part_cut)
    ELSE IF current_part = 1 THEN SliceFrom(chunk, plan.first_part_cut)
    ELSE IF current_part = plan.part_count THEN Slice(chunk, 0, plan.last_part_cut)
    ELSE chunk

\* ------------------------------------------------------------------ state

VARIABLES
    work_loads,   \* TechVJ.bot.work_loads: <<index, workload>> pairs in dict order
    class_cache,  \* route.class_cache: client -> ByteStreamer
    created,      \* ByteStreamer objects constructed so far
    media,        \* the upstream store: message id -> file properties
    task,         \* per request task: its inputs, locals, response and position
    db_users,     \* db.col: the user documents of the registry, in insertion order
    outbox,       \* per user: the messages the bot has sent about that user
    btask         \* per bot handler task: its update, locals and position

webvars == <<work_loads, class_cache, created, media, task>>

botvars == <<db_users, outbox, btask>>

vars == <<work_loads, class_cache, created, media, task, db_users, outbox, btask>>

Sessions == 0..(NumSessions - 1)

\* A task that is not handling a request.
IdleTask ==
    [pc |-> "idle", handler |-> "", path |-> <<>>, query_hash |-> None,
     range_header |-> None,
     file_id |-> NoneInt, secure_hash |-> None, index |-> NoneInt, tg_connect |-> 0,
     status |-> 0, text |-> "", raised |-> "", headers |-> {},
     content_range |-> None, content_length |-> NoneInt,
     file_size |-> NoneInt, from_bytes |-> 0, until_bytes |-> 0,
     plan |-> ChunkPlan(0, 0, 1), sequencer |-> FALSE, current_part |-> 0,
     offset |-> 0, fetches |-> 0, sent |-> <<>>]

\* The handler raised an HTTP error (or turned an exception into one): the
\* response carries the status and a text, and no object byte.
HttpError(tk, code, text) == [tk EXCEPT !.pc = "done", !.status = code, !.text = text]

MissingIdOnly(file_id, secure_hash) == ~TruthyInt(file_id)

\* Lines 41 and 67: not file_id or not secure_hash.
MissingDetails(file_id, secure_hash) == ~TruthyInt(file_id) \/ ~Truthy(secure_hash)

\* The exceptions the handlers raise themselves.
BadRequest ==
    [type |-> "HTTPBadRequest", status |-> 400,
     message |-> "Invalid URL format or missing hash."]

InvalidHash(message) == [type |-> "InvalidHash", status |-> 0, message |-> message]

FIleNotFound(message) == [type |-> "FIleNotFound", status |-> 0, message |-> message]

\* Exceptions an awaited upstream call can end with, each with a detail text.
UpstreamErrors ==
    { [type |-> ty, status |-> 0, message |-> "upstream detail"] :
        ty \in {"AttributeError", "BadStatusLine", "ConnectionResetError",
                "TimeoutError"} }

Disconnections == {"AttributeError", "BadStatusLine", "ConnectionResetError"}

FileGeneric == "An internal server error occurred during streaming."

PageGeneric == "An internal server error occurred."

NotFoundUnhandled(handler, exc) ==
    IF exc.type = "InvalidHash" THEN [status |-> 403, text |-> exc.message]
    ELSE IF exc.type = "HTTPBadRequest" THEN [status |-> exc.status, text |-> exc.message]
    ELSE IF handler = "file" /\ exc.type \in Disconnections
    THEN [status |-> 0, text |-> ""]
    ELSE [status |-> 500, text |-> IF handler = "file" THEN FileGeneric ELSE PageGeneric]

DisconnectUnhandled(handler, exc) ==
    IF exc.type = "InvalidHash" THEN [status |-> 403, text |-> exc.message]
    ELSE IF exc.type = "FIleNotFound" THEN [status |-> 404, text |-> exc.message]
    ELSE IF exc.type = "HTTPBadRequest" THEN [status |-> exc.status, text |-> exc.message]
    ELSE [status |-> 500, text |-> IF handler = "file" THEN FileGeneric ELSE PageGeneric]

\* The except clauses of stream_page_handler (lines 47-57) and of
\* file_stream_handler (lines 72-85), in their order: the HTTP status and text
\* the handler raises for an exception; status 0 when it raises nothing and
\* returns (the three disconnection errors in file_stream_handler).
ExceptClauses(handler, exc) ==
    IF exc.type = "InvalidHash" THEN [status |-> 403, text |-> exc.message]
    ELSE IF exc.type = "FIleNotFound" THEN [status |-> 404, text |-> exc.message]
    ELSE IF exc.type = "HTTPBadRequest" THEN [status |-> exc.status, text |-> exc.message]
    ELSE IF handler = "file" /\ exc.type \in Disconnections
    THEN [status |-> 0, text |-> ""]
    ELSE [status |-> 500, text |-> IF handler = "file" THEN FileGeneric ELSE PageGeneric]

\* An exception raised inside the handler's try block ends the task with what
\* the except clauses make of it.
Raise(tk, exc) ==
    LET r == ExceptClauses(tk.handler, exc)
    IN  [HttpError(tk, r.status, r.text) EXCEPT !.raised = exc.type]

\* Line 194: the headers of the 416 response.
UnsatHeaders(file_size) ==
    { <<"Content-Range", BytesSp \o <<"*", "/">> \o PyStr(file_size)>> }

StreamHeadersNoCache(from_bytes, until_bytes, file_size) ==
    { <<"Content-Range",
        BytesSp \o PyStr(from_bytes) \o <<"-">> \o PyStr(until_bytes)
        \o <<"/">> \o PyStr(file_size)>>,
      <<"Content-Length", PyStr(until_bytes - from_bytes + 1)>>,
      <<"Content-Disposition", "attachment">>,
      <<"Accept-Ranges", "bytes">> }

\* Lines 223-232: the headers of the 200 and 206 responses. Content-Type and
\* the filename parameter of Content-Disposition (lines 158-172, partly random)
\* are left out: the disposition type is always "attachment".
StreamHeaders(from_bytes, until_bytes, file_size) ==
    { <<"Content-Range",
        BytesSp \o PyStr(from_bytes) \o <<"-">> \o PyStr(until_bytes)
        \o <<"/">> \o PyStr(file_size)>>,
      <<"Content-Length", PyStr(until_bytes - from_bytes + 1)>>,
      <<"Content-Disposition", "attachment">>,
      <<"Accept-Ranges", "bytes">>,
      <<"Cache-Control", "no-cache, no-store, must-revalidate">>,
      <<"Pragma", "no-cache">>,
      <<"Expires", "0">> }

IncrementOnDispatch(wl, index) ==
    [i \in 1..Len(wl) |-> IF wl[i][1] = index THEN <<wl[i][1], wl[i][2] + 1>> ELSE wl[i]]

\* Lines 129-144: media_streamer reads work_loads to select the session and
\* assigns nothing to it.
WorkLoadsAfterDispatch(wl, index) == wl

\* ---------------------------------------------------------------- actions

\* Lines 129-141 of media_streamer, run without suspension: select the session,
\* get or create its ByteStreamer, then await get_file_properties.
Dispatch(t, tk) ==
    LET index == SelectIndex(work_loads)
        faster_client == multi_clients[index]
        hit == InCache(class_cache, faster_client)
        tg_connect == IF hit THEN class_cache[faster_client]
                      ELSE [id |-> created + 1, client |-> faster_client]
    IN  /\ hit \/ created < MaxCreated
        /\ created' = IF hit THEN created ELSE created + 1
        /\ class_cache' =
              IF hit THEN class_cache
              ELSE [c \in DOMAIN class_cache \cup {faster_client} |->
                       IF c = faster_client THEN tg_connect ELSE class_cache[c]]
        /\ work_loads' = WorkLoadsAfterDispatch(work_loads, index)
        /\ task' = [task EXCEPT ![t] =
              [tk EXCEPT !.pc = "props", !.index = index,
                         !.tg_connect = tg_connect.id]]

\* file_stream_handler from its entry to the first suspension: the link is
\* parsed (extract_file_details has no suspension point of its own), a request
\* without id or hash is refused with 400, and media_streamer selects the
\* session and gets or creates its ByteStreamer before it awaits
\* get_file_properties. Nothing in between yields to the event loop.
FileStreamHandler(t, path, query_hash, range_header) ==
    /\ task[t].pc = "idle"
    /\ LET d == extract_file_details(path, query_hash)
           tk == [task[t] EXCEPT !.handler = "file",
                                 !.path = path, !.query_hash = query_hash,
                                 !.range_header = range_header,
                                 !.file_id = d.file_id, !.secure_hash = d.secure_hash]
       IN  IF MissingDetails(d.file_id, d.secure_hash)
           THEN /\ task' = [task EXCEPT ![t] = Raise(tk, BadRequest)]
                /\ UNCHANGED <<class_cache, created, work_loads>>
           ELSE Dispatch(t, tk)
    /\ UNCHANGED media
    /\ UNCHANGED botvars

\* get_file_properties returns (or raises FIleNotFound for an id the upstream
\* does not hold) and media_streamer runs to its return without suspending:
\* hash check, Range resolution, chunk plan, yield_file, response.
GetFileProperties(t) ==
    /\ task[t].pc = "props"
    /\ LET tk == task[t]
       IN  IF tk.file_id \notin DOMAIN media
           THEN task' = [task EXCEPT ![t] = Raise(tk, FIleNotFound("FIleNotFound"))]
           ELSE LET file_properties == media[tk.file_id]
                    file_size == file_properties.file_size
                    r == ResolveRange(tk.range_header, file_size)
                    plan == ChunkPlan(r.from_bytes, r.until_bytes, ChunkSize)
                IN  IF ~HashMatches(file_properties.unique_id, tk.secure_hash)
                    THEN task' = [task EXCEPT ![t] =
                            Raise(tk, InvalidHash("Provided hash is invalid. Access Denied."))]
                    ELSE IF r.status = 416
                    THEN task' = [task EXCEPT ![t] =
                            [tk EXCEPT !.pc = "done", !.status = 416,
                                       !.text = "416: Range Not Satisfiable",
                                       !.file_size = file_size,
                                       !.from_bytes = r.from_bytes,
                                       !.until_bytes = r.until_bytes,
                                       !.headers = UnsatHeaders(file_size),
                                       !.content_range =
                                           BytesSp \o <<"*", "/">> \o PyStr(file_size)]]
                    ELSE task' = [task EXCEPT ![t] =
                            [tk EXCEPT !.pc = "stream", !.status = r.status,
                                       !.file_size = file_size,
                                       !.from_bytes = r.from_bytes,
                                       !.until_bytes = r.until_bytes,
                                       !.plan = plan, !.sequencer = TRUE,
                                       !.current_part = 1, !.offset = plan.offset,
                                       !.headers = StreamHeaders(r.from_bytes,
                                                       r.until_bytes, file_size),
                                       !.content_range =
                                           BytesSp \o PyStr(r.from_bytes) \o <<"-">>
                                           \o PyStr(r.until_bytes) \o <<"/">>
                                           \o PyStr(file_size),
                                       !.content_length =
                                           r.until_bytes - r.from_bytes + 1]]
    /\ UNCHANGED <<work_loads, class_cache, created, media>>
    /\ UNCHANGED botvars

\* get_file_properties ends with an error other than FIleNotFound: the except
\* clauses of file_stream_handler decide what becomes of it.
GetFilePropertiesFails(t) ==
    /\ task[t].pc = "props"
    /\ \E exc \in UpstreamErrors : task' = [task EXCEPT ![t] = Raise(task[t], exc)]
    /\ UNCHANGED <<work_loads, class_cache, created, media>>
    /\ UNCHANGED botvars

\* The transport pulls the next part from the body yield_file returned: one
\* upstream chunk is fetched, cut and sent.
YieldFile(t) ==
    /\ task[t].pc = "stream"
    /\ LET tk == task[t]
           chunk == FetchChunk(tk.file_size, tk.offset, tk.plan.chunk_size)
       IN  task' = [task EXCEPT ![t] =
              [tk EXCEPT !.sent = tk.sent \o EmitPart(chunk, tk.current_part, tk.plan),
                         !.fetches = tk.fetches + 1,
                         !.current_part = tk.current_part + 1,
                         !.offset = tk.offset + tk.plan.chunk_size,
                         !.pc = IF tk.current_part + 1 > tk.plan.part_count
                                THEN "done" ELSE "stream"]]
    /\ UNCHANGED <<work_loads, class_cache, created, media>>
    /\ UNCHANGED botvars

\* stream_page_handler from its entry to its suspension in render_page: the
\* link is parsed, a request without id or hash is refused with 400.
StreamPageHandler(t, path, query_hash) ==
    /\ task[t].pc = "idle"
    /\ LET d == extract_file_details(path, query_hash)
           tk == [task[t] EXCEPT !.handler = "watch",
                                 !.path = path, !.query_hash = query_hash,
                                 !.file_id = d.file_id, !.secure_hash = d.secure_hash]
       IN  task' = [task EXCEPT ![t] =
              IF MissingDetails(d.file_id, d.secure_hash)
              THEN Raise(tk, BadRequest)
              ELSE [tk EXCEPT !.pc = "render"]]
    /\ UNCHANGED <<work_loads, class_cache, created, media>>
    /\ UNCHANGED botvars

\* render_page validates the same id and hash and returns the HTML page, or
\* raises FIleNotFound or InvalidHash.
RenderPage(t) ==
    /\ task[t].pc = "render"
    /\ LET tk == task[t]
       IN  task' = [task EXCEPT ![t] =
              IF tk.file_id \notin DOMAIN media
              THEN Raise(tk, FIleNotFound("FIleNotFound"))
              ELSE IF Slice(media[tk.file_id].unique_id, 0, 6) # tk.secure_hash
              THEN Raise(tk, InvalidHash("Invalid hash"))
              ELSE [tk EXCEPT !.pc = "done", !.status = 200, !.text = "text/html page"]]
    /\ UNCHANGED <<work_loads, class_cache, created, media>>
    /\ UNCHANGED botvars

\* render_page ends with any other error.
RenderPageFails(t) ==
    /\ task[t].pc = "render"
    /\ \E exc \in UpstreamErrors : task' = [task EXCEPT ![t] = Raise(task[t], exc)]
    /\ UNCHANGED <<work_loads, class_cache, created, media>>
    /\ UNCHANGED botvars

\* The response is complete; the task ends.
Finish(t) ==
    /\ task[t].pc = "done"
    /\ task' = [task EXCEPT ![t] = IdleTask]
    /\ UNCHANGED <<work_loads, class_cache, created, media>>
    /\ UNCHANGED botvars

\* ----------------------------------------------------------------- inputs

\* unique_id of the stored objects; the capability hash is its first 6 characters.
UniqueId7 == <<"A", "g", "A", "D", "x", "y", "9", "Q">>

UniqueId12 == <<"B", "q", "_", "-", "7", "k", "L", "m">>

GoodHash == <<"A", "g", "A", "D", "x", "y">>

BadHash == <<"Z", "z", "z", "z", "z", "z">>

\* The upstream store: message 7 of the given size and message 12 of one byte.
Store(file_size) ==
    (7 :> [unique_id |-> UniqueId7, file_size |-> file_size])
    @@ (12 :> [unique_id |-> UniqueId12, file_size |-> 1])

\* f"bytes={a}-{b}" and f"bytes={a}-" as a client writes them.
ClosedRange(a, b) == BytesEq \o PyStr(a) \o <<"-">> \o PyStr(b)

OpenRange(a) == BytesEq \o PyStr(a) \o <<"-">>

\* Range headers int() cannot parse, in whole or in their end.
MalformedRanges ==
    { <<"b", "y", "t", "e", "s", "=", "a", "b", "c">>,
      <<"b", "y", "t", "e", "s", "=", "1", "-", "x">>,
      <<"b", "y", "t", "e", "s", "=", "-", "3">>,
      <<"b", "y", "t", "e", "s", "=">>,
      <<"a", "b", "c">>,
      <<"b", "y", "t", "e", "s", "=", "0", "-", "1", ",", "3", "-", "4">>,
      <<"b", "y", "t", "e", "s", "=", "x", "-", "2">> }

\* Range headers of other shapes that the parse accepts.
OddRanges ==
    { <<"b", "y", "t", "e", "s", "=", "0", "-", "1", "-", "x">>,
      <<"b", "y", "t", "e", "s", "=", " ", "1", " ", "-", " ", "2", " ">>,
      <<"b", "y", "t", "e", "s", "=", "+", "1", "-", "2">> }

RangeHeaders ==
    { ClosedRange(a, b) : a \in 0..(MaxSize + 1), b \in 0..(MaxSize + 1) }
    \cup { OpenRange(a) : a \in 0..(MaxSize + 1) }
    \cup MalformedRanges \cup OddRanges \cup {None, <<>>}

\* Link paths: combined <hash><id> links and /<id> links, with and without a
\* file name, and paths that hold no id.
PathGood7 == <<"A", "g", "A", "D", "x", "y", "7">>

PathBad7 == <<"Z", "z", "z", "z", "z", "z", "7">>

PathId7 == <<"7">>

PathId8 == <<"8">>

PathNoId == <<"a", "b", "c">>

LinkPaths ==
    { PathGood7, PathBad7, PathId7, PathId8, PathNoId,
      <<"1", "2", "3", "4", "5", "6", "7">>,
      <<"A", "g", "A", "D", "x", "y", "0", "7">>,
      <<"B", "q", "_", "-", "7", "k", "1", "2">>,
      <<"1", "2">>,
      <<"7", "/", "a", "1", ".", "m", "k", "v">>,
      <<"A", "g", "A", "D", "x", "y">>,
      <<"A", "g", "A", "D", "x", "y", "7", "/", "x">>,
      <<"A", "g", ".", "D", "x", "y", "7">> }

QueryHashes == {None, <<>>, GoodHash, BadHash, Slice(UniqueId12, 0, 6)}

\* Every order in which the sessions can have been inserted into work_loads.
PoolOrders ==
    { p \in [1..NumSessions -> Sessions] :
        \A i, j \in 1..NumSessions : p[i] = p[j] => i = j }

TypeOK ==
    /\ created \in 0..MaxCreated
    /\ DOMAIN class_cache \subseteq { multi_clients[i] : i \in Sessions }
    /\ \A t \in DOMAIN task :
          task[t].pc \in {"idle", "props", "render", "stream", "done"}

\* ---------------------------------------------------------- specifications

\* The bot handlers are not running.
NoBot ==
    /\ db_users = <<>>
    /\ outbox = <<>>
    /\ btask = <<>>

\* Two concurrent request tasks over a small set of links and Range headers;
\* one session is idle and the others carry MaxLoad.
Tasks == {1, 2}

Init ==
    /\ work_loads \in { [i \in 1..NumSessions |->
                             <<i - 1, IF i - 1 = s THEN 0 ELSE MaxLoad>>] :
                          s \in Sessions }
    /\ class_cache = <<>>
    /\ created = 0
    /\ NoBot
    /\ media = Store(ChunkSize + 2)
    /\ task = [t \in Tasks |-> IdleTask]

Next ==
    \E t \in Tasks :
        \/ \E path \in {PathGood7, PathBad7, PathId7, PathId8},
              query_hash \in {None, GoodHash, BadHash},
              range_header \in {None, ClosedRange(1, ChunkSize), ClosedRange(3, 1)} :
              FileStreamHandler(t, path, query_hash, range_header)
        \/ GetFileProperties(t)
        \/ GetFilePropertiesFails(t)
        \/ YieldFile(t)
        \/ Finish(t)

Spec == Init /\ [][Next]_vars

\* One request at a time, every Range header, every object size.
RangeInit ==
    /\ work_loads = [i \in 1..NumSessions |-> <<i - 1, 0>>]
    /\ class_cache = <<>>
    /\ created = 0
    /\ NoBot
    /\ media \in { Store(n) : n \in 0..MaxSize }
    /\ task = [t \in {1} |-> IdleTask]

RangeNext ==
    \/ \E link \in {<<PathGood7, None>>, <<PathId7, GoodHash>>},
          range_header \in RangeHeaders :
          FileStreamHandler(1, link[1], link[2], range_header)
    \/ GetFileProperties(1)
    \/ GetFilePropertiesFails(1)
    \/ YieldFile(1)
    \/ Finish(1)

SpecRange == RangeInit /\ [][RangeNext]_vars

\* Three requests for one object: a prefix bytes=0-(k-1), a suffix
\* bytes=k-(size-1) and the object without a Range header.
ConcatInit ==
    /\ work_loads = [i \in 1..NumSessions |-> <<i - 1, 0>>]
    /\ class_cache = <<>>
    /\ created = 0
    /\ NoBot
    /\ media \in { Store(n) : n \in 2..MaxSize }
    /\ task = [t \in {1, 2, 3} |-> IdleTask]

ConcatNext ==
    \/ \E k \in 1..(media[7].file_size - 1) :
          \/ FileStreamHandler(1, PathId7, GoodHash, ClosedRange(0, k - 1))
          \/ FileStreamHandler(2, PathId7, GoodHash,
                               ClosedRange(k, media[7].file_size - 1))
    \/ FileStreamHandler(3, PathId7, GoodHash, None)
    \/ \E t \in {1, 2, 3} :
          \/ GetFileProperties(t)
          \/ GetFilePropertiesFails(t)
          \/ YieldFile(t)
          \/ Finish(t)

SpecConcat == ConcatInit /\ [][ConcatNext]_vars

\* Every insertion order and every assignment of workload counters.
PoolInit ==
    /\ work_loads \in { [i \in 1..NumSessions |-> <<p[i], l[p[i]]>>] :
                          p \in PoolOrders, l \in [Sessions -> 0..MaxLoad] }
    /\ class_cache = <<>>
    /\ created = 0
    /\ NoBot
    /\ media = Store(1)
    /\ task = [t \in {1} |-> IdleTask]

PoolNext ==
    \/ FileStreamHandler(1, PathId7, GoodHash, None)
    \/ GetFileProperties(1)
    \/ GetFilePropertiesFails(1)
    \/ YieldFile(1)
    \/ Finish(1)

SpecPool == PoolInit /\ [][PoolNext]_vars

\* One request at a time over every link path and query hash.
LinkInit ==
    /\ work_loads = [i \in 1..NumSessions |-> <<i - 1, 0>>]
    /\ class_cache = <<>>
    /\ created = 0
    /\ NoBot
    /\ media = Store(1)
    /\ task = [t \in {1} |-> IdleTask]

LinkNext ==
    \/ \E path \in LinkPaths, query_hash \in QueryHashes :
          FileStreamHandler(1, path, query_hash, None)
    \/ \E path \in LinkPaths, query_hash \in QueryHashes :
          StreamPageHandler(1, path, query_hash)
    \/ GetFileProperties(1)
    \/ GetFilePropertiesFails(1)
    \/ RenderPage(1)
    \/ RenderPageFails(1)
    \/ YieldFile(1)
    \/ Finish(1)

SpecLink == LinkInit /\ [][LinkNext]_vars

\* ------------------------------------------------------------ bot handlers

\* info.AUTH_CHANNEL: the required channels, two by default.
AUTH_CHANNEL == <<1, 2>>

\* info.LOG_CHANNEL, set by default.
LOG_CHANNEL == "LOG_CHANNEL"

\* message.from_user.id of the updates.
Users == {1, 2}

\* The files users send: file_unique_id, file_size and file_name.
UploadedFiles ==
    { [unique_id |-> UniqueId7, file_size |-> ChunkSize + 2,
       file_name |-> <<"a", "1", ".", "m", "k", "v">>] }

\* enums.ChatMemberStatus.
ChatMemberStatus ==
    {"OWNER", "ADMINISTRATOR", "MEMBER", "RESTRICTED", "LEFT", "BANNED"}

\* What Telegram answers in one iteration of the loop of is_subscribed:
\* get_chat returns or raises; get_chat_member returns a status or raises;
\* the invite link is stored in the chat, exported, or the export raises.
ChannelReplies ==
    { [chat |-> "ok", member |-> s, link |-> ""] :
          s \in {"OWNER", "ADMINISTRATOR", "MEMBER", "RESTRICTED"} }
    \cup { [chat |-> "ok", member |-> s, link |-> l] :
             s \in {"LEFT", "BANNED", "UserNotParticipant"},
             l \in {"stored", "exported", "Exception"} }
    \cup { [chat |-> "ok", member |-> "Exception", link |-> ""],
           [chat |-> "Exception", member |-> "", link |-> ""] }
    \cup { [chat |-> "UserNotParticipant", member |-> "", link |-> l] :
             l \in {"stored", "exported", "Exception"} }

LeftOnly(status) == status = "LEFT"

\* Line 31: member.status in [BANNED, LEFT].
NotParticipantStatus(status) == status \in {"BANNED", "LEFT"}

\* Line 36: the button that names the chat.
JoinButton(chat) == [text |-> "Join {chat.title}", chat |-> chat]

\* Lines 40 and 44: the generic button.
FallbackButton == [text |-> "Join Channel", chat |-> 0]

\* Lines 27-44: one iteration of the loop of is_subscribed. chat is the local
\* of that name (0 while unbound); the result holds its new value and the rows
\* appended to unsubscribed_channels.
CheckChannel(chat, channel_id, reply) ==
    LET bound == IF reply.chat = "ok" THEN channel_id ELSE chat
        raised == IF reply.chat # "ok" THEN reply.chat
                  ELSE IF reply.member \in {"UserNotParticipant", "Exception"}
                       THEN reply.member
                  ELSE IF NotParticipantStatus(reply.member)
                       THEN "UserNotParticipant"
                  ELSE ""
    IN  [chat |-> bound,
         rows |-> IF raised = "UserNotParticipant"
                  THEN IF bound = 0 \/ reply.link = "Exception"
                       THEN <<FallbackButton>>
                       ELSE <<JoinButton(bound)>>
                  ELSE IF raised = "Exception"
                       THEN <<FallbackButton>>
                  ELSE <<>>]

\* users_chats_db.new_user.
new_user(id, name) == [id |-> id, name |-> name, banned |-> FALSE]

\* The id Telegram gives the next message of the log channel.
NextMessageId(store) ==
    IF DOMAIN store = {} THEN 1
    ELSE 1 + CHOOSE m \in DOMAIN store : \A n \in DOMAIN store : n <= m

\* A bot task that handles no update.
IdleBot ==
    [pc |-> "idle", handler |-> "", user_id |-> 0, file |-> None,
     channel |-> 0, chat |-> 0, replies |-> <<>>, subscription_buttons |-> <<>>,
     raised |-> FALSE, log_msg |-> NoneInt,
     stream_url |-> None, download_url |-> None]

\* Where a handler goes on after the subscription gate.
AfterGate(handler) == IF handler = "start" THEN "is_user_exist" ELSE "processing"

\* Lines 66 and 124: if AUTH_CHANNEL.
EnterGate(bt) ==
    IF Len(AUTH_CHANNEL) > 0
    THEN [bt EXCEPT !.pc = "is_subscribed", !.channel = 1]
    ELSE [bt EXCEPT !.pc = AfterGate(bt.handler)]

\* Lines 49-68: /start arrives; the reactions fail or not, and the handler
\* calls is_subscribed.
start(b, user_id) ==
    /\ btask[b].pc = "idle"
    /\ btask' = [btask EXCEPT ![b] =
                    EnterGate([IdleBot EXCEPT !.handler = "start",
                                              !.user_id = user_id])]
    /\ UNCHANGED <<db_users, outbox>>
    /\ UNCHANGED webvars

\* Lines 116-126: a media message arrives and the handler calls is_subscribed.
stream_start(b, user_id, file) ==
    /\ btask[b].pc = "idle"
    /\ btask' = [btask EXCEPT ![b] =
                    EnterGate([IdleBot EXCEPT !.handler = "stream_start",
                                              !.user_id = user_id,
                                              !.file = file])]
    /\ UNCHANGED <<db_users, outbox>>
    /\ UNCHANGED webvars

\* Lines 26-46 and the test at lines 69 and 127: one channel is checked; after
\* the last one the list is returned and tested.
is_subscribed(b, reply) ==
    /\ btask[b].pc = "is_subscribed"
    /\ LET bt == btask[b]
           r == CheckChannel(bt.chat, AUTH_CHANNEL[bt.channel], reply)
           buttons == bt.subscription_buttons \o r.rows
       IN  btask' = [btask EXCEPT ![b] =
              [bt EXCEPT !.chat = r.chat,
                         !.replies = Append(@, reply),
                         !.subscription_buttons = buttons,
                         !.channel = @ + 1,
                         !.pc = IF bt.channel < Len(AUTH_CHANNEL)
                                THEN "is_subscribed"
                                ELSE IF buttons # <<>> THEN "prompt"
                                ELSE AfterGate(bt.handler)]]
    /\ UNCHANGED <<db_users, outbox>>
    /\ UNCHANGED webvars

\* Lines 69-82 and 127-138: the list is not empty. The prompt with the rows and
\* the Try Again row is sent; or get_me or the reply raises and the apology is
\* sent; or that reply raises too. The handler returns.
SubscriptionPrompt(b, result) ==
    /\ btask[b].pc = "prompt"
    /\ outbox' =
          IF result = "sent"
          THEN Append(outbox, [to |-> btask[b].user_id, kind |-> "join",
                               user |-> btask[b].user_id,
                               rows |-> Len(btask[b].subscription_buttons) + 1])
          ELSE IF result = "apology"
          THEN Append(outbox, [to |-> btask[b].user_id, kind |-> "apology",
                               user |-> btask[b].user_id, rows |-> 0])
          ELSE outbox
    /\ btask' = [btask EXCEPT ![b].pc = "done", ![b].raised = (result # "sent")]
    /\ UNCHANGED db_users
    /\ UNCHANGED webvars

\* Lines 86 and 94-95, users_chats_db 22-24: find_one answers or raises.
IsUserExist(b, result) ==
    /\ btask[b].pc = "is_user_exist"
    /\ btask' = [btask EXCEPT ![b].pc =
                    IF result = "Exception" THEN "welcome"
                    ELSE IF \E i \in 1..Len(db_users) :
                               db_users[i].id = btask[b].user_id
                         THEN "welcome"
                    ELSE "add_user"]
    /\ UNCHANGED <<db_users, outbox>>
    /\ UNCHANGED webvars

\* Lines 87 and 94-95, users_chats_db 18-20: insert_one inserts or raises.
AddUser(b, result) ==
    /\ btask[b].pc = "add_user"
    /\ IF result = "ok"
       THEN /\ db_users' = Append(db_users, new_user(btask[b].user_id, "first_name"))
            /\ btask' = [btask EXCEPT ![b].pc =
                            IF LOG_CHANNEL # "" THEN "log" ELSE "welcome"]
       ELSE /\ db_users' = db_users
            /\ btask' = [btask EXCEPT ![b].pc = "welcome"]
    /\ UNCHANGED outbox
    /\ UNCHANGED webvars

\* Lines 89-93: the new user is announced in the log channel, or the send raises.
LogNewUser(b, result) ==
    /\ btask[b].pc = "log"
    /\ outbox' = IF result = "ok"
                 THEN Append(outbox, [to |-> LOG_CHANNEL, kind |-> "new_user",
                                      user |-> btask[b].user_id, rows |-> 0])
                 ELSE outbox
    /\ btask' = [btask EXCEPT ![b].pc = "welcome"]
    /\ UNCHANGED db_users
    /\ UNCHANGED webvars

\* Lines 98-112: the welcome message is sent, or the reply raises.
Welcome(b, result) ==
    /\ btask[b].pc = "welcome"
    /\ outbox' = IF result = "ok"
                 THEN Append(outbox, [to |-> btask[b].user_id, kind |-> "welcome",
                                      user |-> btask[b].user_id, rows |-> 2])
                 ELSE outbox
    /\ btask' = [btask EXCEPT ![b].pc = "done"]
    /\ UNCHANGED db_users
    /\ UNCHANGED webvars

\* Line 141: the processing notice is sent; if the reply raises the handler
\* ends with the exception.
Processing(b, result) ==
    /\ btask[b].pc = "processing"
    /\ IF result = "ok"
       THEN /\ outbox' = Append(outbox, [to |-> btask[b].user_id,
                                         kind |-> "processing",
                                         user |-> btask[b].user_id, rows |-> 0])
            /\ btask' = [btask EXCEPT ![b].pc =
                            IF LOG_CHANNEL # "" THEN "send_cached_media" ELSE "done"]
       ELSE /\ outbox' = outbox
            /\ btask' = [btask EXCEPT ![b].pc = "done", ![b].raised = TRUE]
    /\ UNCHANGED db_users
    /\ UNCHANGED webvars

\* Lines 221-227: the handler's except clause edits the notice into an apology.
StreamFailed(bt) == [bt EXCEPT !.pc = "done", !.raised = TRUE]

\* Lines 157-162: the file is copied to the log channel, where it gets the next
\* message id; or the send raises.
SendCachedMedia(b, result) ==
    /\ btask[b].pc = "send_cached_media"
    /\ IF result = "ok"
       THEN /\ media' = (NextMessageId(media) :> btask[b].file) @@ media
            /\ outbox' = Append(outbox, [to |-> LOG_CHANNEL, kind |-> "copy",
                                         user |-> btask[b].user_id, rows |-> 0])
            /\ btask' = [btask EXCEPT ![b].pc = "edit_log",
                                      ![b].log_msg = NextMessageId(media)]
       ELSE /\ media' = media
            /\ outbox' = outbox
            /\ btask' = [btask EXCEPT ![b] = StreamFailed(@)]
    /\ UNCHANGED db_users
    /\ UNCHANGED <<work_loads, class_cache, created, task>>

\* info.URL as a deployment sets it: the base of every link.
URL == <<"h", "t", "t", "p", ":", "/", "/", "h", "/">>

\* The characters urllib.parse.quote_plus leaves as they are.
QuoteSafe == TokenChars \cup {".", "~"}

\* The percent escapes of the other characters of the file names.
PercentCode ==
    ("/" :> <<"%", "2", "F">>) @@ ("?" :> <<"%", "3", "F">>)
    @@ ("%" :> <<"%", "2", "5">>) @@ ("+" :> <<"%", "2", "B">>)
    @@ ("=" :> <<"%", "3", "D">>) @@ ("&" :> <<"%", "2", "6">>)
    @@ ("#" :> <<"%", "2", "3">>)

RECURSIVE quote_plus(_)
\* urllib.parse.quote_plus: safe characters stay, a space becomes +, every
\* other character becomes its percent escape.
quote_plus(name) ==
    IF name = <<>> THEN <<>>
    ELSE (IF Head(name) \in QuoteSafe THEN <<Head(name)>>
          ELSE IF Head(name) = " " THEN <<"+">>
          ELSE PercentCode[Head(name)])
         \o quote_plus(Tail(name))

\* get_name and get_hash of the copy in the log channel: its file name and the
\* first six characters of its file_unique_id.
get_name(file) == file.file_name

get_hash(file) == Slice(file.unique_id, 0, 6)

HashQuery == <<"?", "h", "a", "s", "h", "=">>

\* Line 173: f"{URL}watch/{log_msg.id}/{file_name_quoted}?hash={get_hash(log_msg)}".
StreamUrl(log_msg_id, file) ==
    URL \o <<"w", "a", "t", "c", "h", "/">> \o PyStr(log_msg_id) \o <<"/">>
    \o quote_plus(get_name(file)) \o HashQuery \o get_hash(file)

\* Line 174: f"{URL}{log_msg.id}/{file_name_quoted}?hash={get_hash(log_msg)}".
DownloadUrl(log_msg_id, file) ==
    URL \o PyStr(log_msg_id) \o <<"/">>
    \o quote_plus(get_name(file)) \o HashQuery \o get_hash(file)

\* Lines 167-199: the links are built and written under the copy in the log
\* channel; or the edit raises.
EditLogMessage(b, result) ==
    /\ btask[b].pc = "edit_log"
    /\ LET bt == [btask[b] EXCEPT
                     !.stream_url = StreamUrl(btask[b].log_msg, btask[b].file),
                     !.download_url = DownloadUrl(btask[b].log_msg, btask[b].file)]
       IN  btask' = [btask EXCEPT ![b] =
                        IF result = "ok" THEN [bt EXCEPT !.pc = "links"]
                        ELSE StreamFailed(bt)]
    /\ UNCHANGED <<db_users, outbox>>
    /\ UNCHANGED webvars

\* Lines 202-219: the notice is edited into the message with the two links; or
\* the edit raises.
SendLinks(b, result) ==
    /\ btask[b].pc = "links"
    /\ IF result = "ok"
       THEN /\ outbox' = Append(outbox, [to |-> btask[b].user_id, kind |-> "links",
                                         user |-> btask[b].user_id, rows |-> 1])
            /\ btask' = [btask EXCEPT ![b].pc = "done"]
       ELSE /\ outbox' = outbox
            /\ btask' = [btask EXCEPT ![b] = StreamFailed(@)]
    /\ UNCHANGED db_users
    /\ UNCHANGED webvars

\* One update at a time, over every answer of Telegram and of the database;
\* the registry is empty or holds user 1.
BotInit ==
    /\ work_loads = [i \in 1..NumSessions |-> <<i - 1, 0>>]
    /\ class_cache = <<>>
    /\ created = 0
    /\ media = Store(1)
    /\ task = <<>>
    /\ db_users \in { <<>>, <<new_user(1, "first_name")>> }
    /\ outbox = <<>>
    /\ btask = [b \in {1} |-> IdleBot]

BotNext ==
    \/ \E user_id \in Users : start(1, user_id)
    \/ \E user_id \in Users, file \in UploadedFiles : stream_start(1, user_id, file)
    \/ \E reply \in ChannelReplies : is_subscribed(1, reply)
    \/ \E result \in {"sent", "apology", "Exception"} : SubscriptionPrompt(1, result)
    \/ \E result \in {"ok", "Exception"} : IsUserExist(1, result)
    \/ \E result \in {"ok", "Exception"} : AddUser(1, result)
    \/ \E result \in {"ok", "Exception"} : LogNewUser(1, result)
    \/ \E result \in {"ok", "Exception"} : Welcome(1, result)
    \/ \E result \in {"ok", "Exception"} : Processing(1, result)
    \/ \E result \in {"ok", "Exception"} : SendCachedMedia(1, result)
    \/ \E result \in {"ok", "Exception"} : EditLogMessage(1, result)
    \/ \E result \in {"ok", "Exception"} : SendLinks(1, result)

SpecBot == BotInit /\ [][BotNext]_vars

\* ------------------------------------------------------ following a link

RECURSIVE unquote(_)
\* The percent decoding of the request path: every escape becomes its
\* character again.
unquote(s) ==
    IF s = <<>> THEN <<>>
    ELSE IF Head(s) = "%" /\ Len(s) >= 3
            /\ \E c \in DOMAIN PercentCode : PercentCode[c] = SubSeq(s, 1, 3)
         THEN <<CHOOSE c \in DOMAIN PercentCode : PercentCode[c] = SubSeq(s, 1, 3)>>
              \o unquote(SubSeq(s, 4, Len(s)))
         ELSE <<Head(s)>> \o unquote(Tail(s))

\* The index of the first ? of a URL, or one past its end.
QueryMark(url) ==
    IF \E i \in 1..Len(url) : url[i] = "?"
    THEN CHOOSE i \in 1..Len(url) :
            url[i] = "?" /\ \A k \in 1..(i - 1) : url[k] # "?"
    ELSE Len(url) + 1

\* request.rel_url.query.get("hash") of a URL whose query is hash=<value>.
QueryHash(url) ==
    LET query == SubSeq(url, QueryMark(url) + 1, Len(url))
    IN  IF IsPrefixAt(query, 1, <<"h", "a", "s", "h", "=">>)
        THEN unquote(PyReplace(SliceFrom(query, 5), <<"+">>, <<" ">>))
        ELSE None

\* The path of a URL below the base URL, as it is written in the link.
RawPath(url) == SubSeq(url, Len(URL) + 1, QueryMark(url) - 1)

\* Lines 33 and 59: the route /watch/{path} is tried before /{path}.
IsWatchRoute(raw_path) == IsPrefixAt(raw_path, 1, <<"w", "a", "t", "c", "h", "/">>) /\ Len(raw_path) > 6

\* request.match_info["path"] for a link: the part the route captures, percent
\* decoded or as written.
MatchInfoPath(url, decoded) ==
    LET raw == RawPath(url)
        captured == IF IsWatchRoute(raw) THEN SliceFrom(raw, 6) ELSE raw
    IN  IF decoded THEN unquote(captured) ELSE captured

\* A client follows the download link the bot made for task b.
FollowDownload(t, b, decoded) ==
    /\ btask[b].pc \in {"links", "done"}
    /\ btask[b].download_url # None
    /\ LET url == btask[b].download_url
       IN  IF IsWatchRoute(RawPath(url))
           THEN StreamPageHandler(t, MatchInfoPath(url, decoded), QueryHash(url))
           ELSE FileStreamHandler(t, MatchInfoPath(url, decoded), QueryHash(url), None)

\* A client follows the watch link the bot made for task b.
FollowWatch(t, b, decoded) ==
    /\ btask[b].pc \in {"links", "done"}
    /\ btask[b].stream_url # None
    /\ LET url == btask[b].stream_url
       IN  IF IsWatchRoute(RawPath(url))
           THEN StreamPageHandler(t, MatchInfoPath(url, decoded), QueryHash(url))
           ELSE FileStreamHandler(t, MatchInfoPath(url, decoded), QueryHash(url), None)

\* The last message of the log channel before the bot posts.
LastLogIds == {0, 6, 12, 123455, 1234566}

LogChannelUpTo(last) ==
    [n \in (IF last = 0 THEN {} ELSE {last}) |->
        [unique_id |-> UniqueId12, file_size |-> 1]]

\* File names with digits, separators and characters that quote_plus escapes.
FileNames ==
    { <<>>, <<"7">>, <<"a", "1", ".", "m", "k", "v">>,
      <<"1", "2", " ", "3">>, <<"9", "/", "8">>,
      <<"A", "g", "A", "D", "x", "y", "7">>, <<"1", "2", "3", "4", "5", "6", "7">>,
      <<"x", "?", "7", "=", "8">>, <<"w", "a", "t", "c", "h", "/", "5">> }

\* file_unique_id values; the hash of the last one is all digits.
UniqueIds == { UniqueId7, UniqueId12, <<"1", "2", "3", "4", "5", "6", "7", "8">> }

LinkedFiles ==
    { [unique_id |-> u, file_size |-> 1, file_name |-> name] :
          u \in UniqueIds, name \in FileNames }

\* A subscribed user sends one file; a client then follows the links.
TripInit ==
    /\ work_loads = [i \in 1..NumSessions |-> <<i - 1, 0>>]
    /\ class_cache = <<>>
    /\ created = 0
    /\ media \in { LogChannelUpTo(last) : last \in LastLogIds }
    /\ task = [t \in {1} |-> IdleTask]
    /\ db_users = <<>>
    /\ outbox = <<>>
    /\ btask = [b \in {1} |-> IdleBot]

TripNext ==
    \/ \E file \in LinkedFiles : stream_start(1, 1, file)
    \/ is_subscribed(1, [chat |-> "ok", member |-> "MEMBER", link |-> ""])
    \/ Processing(1, "ok")
    \/ SendCachedMedia(1, "ok")
    \/ \E result \in {"ok", "Exception"} : EditLogMessage(1, result)
    \/ \E result \in {"ok", "Exception"} : SendLinks(1, result)
    \/ \E decoded \in BOOLEAN : FollowDownload(1, 1, decoded)
    \/ \E decoded \in BOOLEAN : FollowWatch(1, 1, decoded)
    \/ GetFileProperties(1)
    \/ RenderPage(1)
    \/ YieldFile(1)
    \/ Finish(1)

SpecTrip == TripInit /\ [][TripNext]_vars

\* ---------------------------------------------------- concurrent /start

\* Two /start updates handled at once by subscribed users; every await of the
\* handler is a point where the other task may run.
RaceInit ==
    /\ work_loads = [i \in 1..NumSessions |-> <<i - 1, 0>>]
    /\ class_cache = <<>>
    /\ created = 0
    /\ media = Store(1)
    /\ task = <<>>
    /\ db_users = <<>>
    /\ outbox = <<>>
    /\ btask = [b \in {1, 2} |-> IdleBot]

RaceNext ==
    \E b \in {1, 2} :
        \/ \E user_id \in Users : start(b, user_id)
        \/ is_subscribed(b, [chat |-> "ok", member |-> "MEMBER", link |-> ""])
        \/ \E result \in {"ok", "Exception"} : IsUserExist(b, result)
        \/ \E result \in {"ok", "Exception"} : AddUser(b, result)
        \/ \E result \in {"ok", "Exception"} : LogNewUser(b, result)
        \/ \E result \in {"ok", "Exception"} : Welcome(b, result)

SpecRace == RaceInit /\ [][RaceNext]_vars

\* ------------------------------------------------------------- registry

\* The registry holds at most MaxDocs documents.
MaxDocs == 3

\* col.find_one({'id': id}): the index of the first document with that id, or 0.
find_one(col, id) ==
    IF \E i \in 1..Len(col) : col[i].id = id
    THEN CHOOSE i \in 1..Len(col) :
            col[i].id = id /\ \A k \in 1..(i - 1) : col[k].id # id
    ELSE 0

\* Database.is_user_exist: bool(user).
is_user_exist(col, id) == find_one(col, id) # 0

\* Database.is_user_banned: user['banned'] if user else False.
is_user_banned(col, id) ==
    IF find_one(col, id) # 0 THEN col[find_one(col, id)].banned ELSE FALSE

\* Database.add_user: insert_one(new_user(id, name)).
add_user(col, id, name) == Append(col, new_user(id, name))

\* Database.delete_user: delete_many({'id': id}).
delete_user(col, id) ==
    LET Other(doc) == doc.id # id IN SelectSeq(col, Other)

\* col.update_one({'id': id}, {'$set': {'banned': banned}}): the first document
\* with that id is set; modified_count counts it only if its flag changed.
update_one(col, id, banned) ==
    LET i == find_one(col, id)
    IN  IF i = 0 THEN [col |-> col, modified_count |-> 0]
        ELSE [col |-> [col EXCEPT ![i].banned = banned],
              modified_count |-> IF col[i].banned = banned THEN 0 ELSE 1]

\* Database.ban_user and Database.unban_user: result.modified_count > 0.
ban_user(col, id) ==
    LET result == update_one(col, id, TRUE)
    IN  [col |-> result.col, returned |-> result.modified_count > 0]

unban_user(col, id) ==
    LET result == update_one(col, id, FALSE)
    IN  [col |-> result.col, returned |-> result.modified_count > 0]

\* A caller of the registry: its last call with the value it returned, what
\* is_user_exist and is_user_banned said of that user before the call, and per
\* user what the calls so far amount to: absent, added and not banned since, or
\* banned last.
NoCall ==
    [call |-> "", user_id |-> 0, returned |-> FALSE, existed |-> FALSE,
     was_banned |-> FALSE, ledger |-> [u \in Users |-> "absent"]]

Called(b, call, id, returned, ledger) ==
    [call |-> call, user_id |-> id, returned |-> returned,
     existed |-> is_user_exist(db_users, id),
     was_banned |-> is_user_banned(db_users, id),
     ledger |-> ledger]

CallAddUser(b, id) ==
    /\ Len(db_users) < MaxDocs
    /\ db_users' = add_user(db_users, id, "first_name")
    /\ btask' = [btask EXCEPT ![b] =
                    Called(b, "add_user", id, FALSE,
                           [btask[b].ledger EXCEPT ![id] = "clear"])]
    /\ UNCHANGED outbox
    /\ UNCHANGED webvars

CallDeleteUser(b, id) ==
    /\ db_users' = delete_user(db_users, id)
    /\ btask' = [btask EXCEPT ![b] =
                    Called(b, "delete_user", id, FALSE,
                           [btask[b].ledger EXCEPT ![id] = "absent"])]
    /\ UNCHANGED outbox
    /\ UNCHANGED webvars

CallBanUser(b, id) ==
    /\ db_users' = ban_user(db_users, id).col
    /\ btask' = [btask EXCEPT ![b] =
                    Called(b, "ban_user", id, ban_user(db_users, id).returned,
                           [btask[b].ledger EXCEPT
                               ![id] = IF @ = "absent" THEN @ ELSE "banned"])]
    /\ UNCHANGED outbox
    /\ UNCHANGED webvars

CallUnbanUser(b, id) ==
    /\ db_users' = unban_user(db_users, id).col
    /\ btask' = [btask EXCEPT ![b] =
                    Called(b, "unban_user", id, unban_user(db_users, id).returned,
                           [btask[b].ledger EXCEPT
                               ![id] = IF @ = "absent" THEN @ ELSE "clear"])]
    /\ UNCHANGED outbox
    /\ UNCHANGED webvars

\* Any sequence of registry calls on an empty registry.
RegistryInit ==
    /\ work_loads = [i \in 1..NumSessions |-> <<i - 1, 0>>]
    /\ class_cache = <<>>
    /\ created = 0
    /\ media = Store(1)
    /\ task = <<>>
    /\ db_users = <<>>
    /\ outbox = <<>>
    /\ btask = [b \in {1} |-> NoCall]

RegistryNext ==
    \E id \in Users :
        \/ CallAddUser(1, id)
        \/ CallDeleteUser(1, id)
        \/ CallBanUser(1, id)
        \/ CallUnbanUser(1, id)

SpecRegistry == RegistryInit /\ [][RegistryNext]_vars

\* ----------------------------------------------------------------- claims

\* get_file_properties has returned the properties of an object for task t.
PropertiesReturned(t) ==
    /\ task[t].handler = "file"
    /\ task[t].pc \in {"stream", "done"}
    /\ task[t].raised \notin {"HTTPBadRequest", "FIleNotFound"}
    /\ task[t].raised \notin { e.type : e \in UpstreamErrors }
    /\ task[t].file_id \in DOMAIN media

\* The capability hash of the object task t asks for.
TrueHash(t) == Slice(media[task[t].file_id].unique_id, 0, 6)

C2_Original ==
    \A t \in DOMAIN task :
        (PropertiesReturned(t) /\ task[t].secure_hash = TrueHash(t))
        => task[t].status \in {200, 206}

\* C2 amended: with the object's true hash the status is 200, 206 or 416 and
\* never 403, and it is 416 only for a Range header that parses to a range
\* violating 0 <= from <= until < size.
C2_ValidHashNotForbidden ==
    \A t \in DOMAIN task :
        (PropertiesReturned(t) /\ task[t].secure_hash = TrueHash(t))
        => /\ task[t].status \in {200, 206, 416}
           /\ task[t].status = 416 =>
                 /\ Truthy(task[t].range_header)
                 /\ ~(/\ 0 <= task[t].from_bytes
                      /\ task[t].from_bytes <= task[t].until_bytes
                      /\ task[t].until_bytes < task[t].file_size)

C2_Witness ==
    \E t \in DOMAIN task :
        /\ PropertiesReturned(t)
        /\ task[t].secure_hash = TrueHash(t)
        /\ task[t].range_header = ClosedRange(MaxSize + 1, MaxSize + 1)
        /\ task[t].status = 416

\* C3: for Range bytes=a-b with 0 <= a <= b < size the response is 206, announces
\* b - a + 1 bytes, and the body the sequencer has sent when it ends is exactly
\* bytes a..b of the object.
C3_RangeBodyIsSlice ==
    \A t \in DOMAIN task : \A a, b \in 0..MaxSize :
        (/\ PropertiesReturned(t)
         /\ task[t].secure_hash = TrueHash(t)
         /\ task[t].range_header = ClosedRange(a, b)
         /\ a <= b /\ b < task[t].file_size)
        => /\ task[t].status = 206
           /\ task[t].content_length = b - a + 1
           /\ task[t].pc = "done" =>
                 /\ Len(task[t].sent) = b - a + 1
                 /\ \A i \in 1..(b - a + 1) : task[t].sent[i] = a + i - 1

C3_Witness ==
    \E t \in DOMAIN task :
        /\ PropertiesReturned(t)
        /\ task[t].pc = "done"
        /\ task[t].range_header = ClosedRange(1, 2 * ChunkSize)
        /\ task[t].plan.part_count = 3
        /\ Len(task[t].sent) = 2 * ChunkSize

\* C4: for Range bytes=a- with 0 <= a < size, until_bytes is size - 1, the status
\* is 206 and the body sent is bytes a..size-1.
C4_OpenRangeToEnd ==
    \A t \in DOMAIN task : \A a \in 0..MaxSize :
        (/\ PropertiesReturned(t)
         /\ task[t].secure_hash = TrueHash(t)
         /\ task[t].range_header = OpenRange(a)
         /\ a < task[t].file_size)
        => /\ task[t].status = 206
           /\ task[t].from_bytes = a
           /\ task[t].until_bytes = task[t].file_size - 1
           /\ task[t].pc = "done" =>
                 /\ Len(task[t].sent) = task[t].file_size - a
                 /\ \A i \in 1..(task[t].file_size - a) : task[t].sent[i] = a + i - 1

C4_Witness ==
    \E t \in DOMAIN task :
        /\ PropertiesReturned(t)
        /\ task[t].pc = "done"
        /\ task[t].range_header = OpenRange(2)
        /\ task[t].file_size = MaxSize
        /\ task[t].status = 206
        /\ Len(task[t].sent) = MaxSize - 2

\* The request of task t carries Range bytes=a-b with a >= size or a > b and the
\* object's true hash.
UnsatisfiableRequest(t) ==
    /\ PropertiesReturned(t)
    /\ task[t].secure_hash = TrueHash(t)
    /\ \E a, b \in 0..(MaxSize + 1) :
          /\ task[t].range_header = ClosedRange(a, b)
          /\ (a >= task[t].file_size \/ a > b)

\* C5 as stated: such a request gets 416 with Content-Range: bytes */<size> and
\* an empty body.
C5_Original ==
    \A t \in DOMAIN task :
        UnsatisfiableRequest(t)
        => /\ task[t].status = 416
           /\ task[t].content_range = BytesSp \o <<"*", "/">> \o PyStr(task[t].file_size)
           /\ task[t].text = ""
           /\ task[t].sent = <<>>

\* C5 amended: such a request gets 416 with Content-Range: bytes */<size> and the
\* fixed text "416: Range Not Satisfiable" as body; no object byte is sent and no
\* chunk is fetched.
C5_UnsatisfiableRange416 ==
    \A t \in DOMAIN task :
        UnsatisfiableRequest(t)
        => /\ task[t].status = 416
           /\ task[t].pc = "done"
           /\ task[t].content_range = BytesSp \o <<"*", "/">> \o PyStr(task[t].file_size)
           /\ task[t].text = "416: Range Not Satisfiable"
           /\ task[t].sent = <<>>
           /\ task[t].fetches = 0

C5_Witness ==
    \E t \in DOMAIN task :
        /\ UnsatisfiableRequest(t)
        /\ task[t].range_header = ClosedRange(3, 1)
        /\ task[t].file_size = MaxSize
        /\ task[t].status = 416

\* Task t has sent the whole body of a request made with the object's true hash.
BodyComplete(t) ==
    /\ PropertiesReturned(t)
    /\ task[t].secure_hash = TrueHash(t)
    /\ task[t].sequencer
    /\ task[t].pc = "done"

\* C6: for an object of size >= 2 and 0 < k < size, the body of bytes=0-(k-1)
\* followed by the body of bytes=k-(size-1) is the body of the request without a
\* Range header.
C6_HalvesConcatenateToFull ==
    \A k \in 1..MaxSize :
        (/\ k < media[7].file_size
         /\ BodyComplete(1) /\ BodyComplete(2) /\ BodyComplete(3)
         /\ task[1].range_header = ClosedRange(0, k - 1)
         /\ task[2].range_header = ClosedRange(k, media[7].file_size - 1)
         /\ task[3].range_header = None)
        => task[1].sent \o task[2].sent = task[3].sent

C6_Witness ==
    /\ media[7].file_size = MaxSize
    /\ BodyComplete(1) /\ BodyComplete(2) /\ BodyComplete(3)
    /\ task[1].range_header = ClosedRange(0, ChunkSize)
    /\ task[2].range_header = ClosedRange(ChunkSize + 1, MaxSize - 1)
    /\ task[3].range_header = None
    /\ Len(task[3].sent) = MaxSize
    /\ Len(task[2].sent) = MaxSize - ChunkSize - 1

\* C7: a Range header that int() cannot parse gets status 200, from_bytes = 0,
\* until_bytes = size - 1 and the whole object as body, also when its start was
\* parsed before its end failed.
C7_MalformedRangeIsFull ==
    \A t \in DOMAIN task :
        (/\ PropertiesReturned(t)
         /\ task[t].secure_hash = TrueHash(t)
         /\ task[t].range_header \in MalformedRanges)
        => /\ task[t].status = 200
           /\ task[t].from_bytes = 0
           /\ task[t].until_bytes = task[t].file_size - 1
           /\ task[t].content_length = task[t].file_size
           /\ task[t].pc = "done" => task[t].sent = FileBytes(task[t].file_size)

C7_Witness ==
    \E t \in DOMAIN task :
        /\ PropertiesReturned(t)
        /\ task[t].pc = "done"
        /\ task[t].range_header = <<"b", "y", "t", "e", "s", "=", "1", "-", "x">>
        /\ task[t].file_size = MaxSize
        /\ task[t].status = 200
        /\ Len(task[t].sent) = MaxSize

\* The position of session index in work_loads' iteration order.
PoolPosition(index) == CHOOSE i \in 1..Len(work_loads) : work_loads[i][1] = index

\* C8: the session media_streamer selects has a workload that is minimal over the
\* pool, and every session before it in the pool's iteration order has a
\* strictly larger workload; with workloads 3, 1, 1 it is the second session.
C8_LeastLoadedFirst ==
    \A t \in DOMAIN task :
        task[t].index # NoneInt
        => LET pos == PoolPosition(task[t].index)
           IN  /\ \A j \in 1..Len(work_loads) : work_loads[pos][2] <= work_loads[j][2]
               /\ \A j \in 1..(pos - 1) : work_loads[pos][2] < work_loads[j][2]
               /\ (/\ Len(work_loads) = 3
                   /\ work_loads[1][2] = 3 /\ work_loads[2][2] = 1 /\ work_loads[3][2] = 1)
                  => pos = 2

C8_Witness ==
    \E t \in DOMAIN task :
        /\ task[t].pc = "props"
        /\ work_loads = <<<<2, 3>>, <<0, 1>>, <<1, 1>>>>
        /\ task[t].index = 0

\* Every task past session selection holds the adapter the cache holds for its
\* session, each cached adapter belongs to its key, and as many adapters were
\* constructed as the cache holds, at most one per session.
CacheConsistent ==
    /\ created = Cardinality(DOMAIN class_cache)
    /\ Cardinality(DOMAIN class_cache) <= NumSessions
    /\ \A c \in DOMAIN class_cache : class_cache[c].client = c
    /\ \A t \in DOMAIN task :
          task[t].index # NoneInt
          => /\ multi_clients[task[t].index] \in DOMAIN class_cache
             /\ task[t].tg_connect = class_cache[multi_clients[task[t].index]].id

\* No step removes or replaces an entry of class_cache.
CacheStable ==
    \A c \in DOMAIN class_cache :
        /\ c \in DOMAIN class_cache'
        /\ class_cache'[c] = class_cache[c]

\* C9: under every interleaving of the request tasks at most one ByteStreamer is
\* constructed per session, every request on a session gets the instance the
\* cache holds for it, entries are never replaced or evicted, and the cache
\* holds no more entries than there are sessions.
C9_OneAdapterPerSession == [](CacheConsistent) /\ [][CacheStable]_vars

C9_Witness ==
    /\ task[1].pc = "props" /\ task[2].pc = "props"
    /\ task[1].index = task[2].index
    /\ task[1].tg_connect = task[2].tg_connect
    /\ created = 1

\* Combined links <6-char-token><digits>: the path, its embedded hash, its id.
CombinedLinks ==
    { <<PathGood7, GoodHash, 7>>,
      <<PathBad7, BadHash, 7>>,
      <<<<"1", "2", "3", "4", "5", "6", "7">>, <<"1", "2", "3", "4", "5", "6">>, 7>>,
      <<<<"A", "g", "A", "D", "x", "y", "0", "7">>, GoodHash, 7>>,
      <<<<"B", "q", "_", "-", "7", "k", "1", "2">>, <<"B", "q", "_", "-", "7", "k">>, 12>> }

\* C10: for a combined link the object id is the trailing digits; the hash is the
\* query hash when one is present and non-empty, and the six characters of the
\* path otherwise; with a query hash present the request is refused with 403
\* exactly when the query hash is not the object's hash, whatever the path holds.
C10_QueryHashPrecedence ==
    \A t \in DOMAIN task : \A link \in CombinedLinks :
        (task[t].pc # "idle" /\ task[t].path = link[1])
        => /\ task[t].file_id = link[3]
           /\ task[t].secure_hash =
                 IF task[t].query_hash \in {None, <<>>} THEN link[2]
                 ELSE task[t].query_hash
           /\ (PropertiesReturned(t) /\ task[t].query_hash \notin {None, <<>>})
              => (task[t].status = 403 <=> task[t].query_hash # TrueHash(t))

C10_Witness ==
    \E t \in DOMAIN task :
        /\ task[t].path = PathBad7
        /\ task[t].query_hash = GoodHash
        /\ task[t].secure_hash = GoodHash
        /\ task[t].file_id = 7
        /\ task[t].pc = "done"
        /\ task[t].status = 200

\* Links of the documented form /{id}?hash={hash}: the path and the id it names.
IdLinks ==
    { <<PathId7, 7>>,
      <<PathId8, 8>>,
      <<<<"1", "2">>, 12>>,
      <<<<"7", "/", "a", "1", ".", "m", "k", "v">>, 7>>,
      <<<<"1", "2", "3", "4", "5", "6", "7">>, 1234567>> }

\* C11 as stated: a request /{n}?hash={h}, for a positive n of any number of
\* digits and a 6-character h, is resolved to exactly (n, h).
C11_Original ==
    \A t \in DOMAIN task : \A link \in IdLinks :
        (/\ task[t].pc # "idle"
         /\ task[t].path = link[1]
         /\ task[t].query_hash \in {GoodHash, BadHash})
        => /\ task[t].file_id = link[2]
           /\ task[t].secure_hash = task[t].query_hash

\* Requests that carry no object id, or no hash in either place.
NoDetails(t) ==
    \/ task[t].path \in {PathNoId, <<"A", "g", "A", "D", "x", "y">>}
    \/ /\ task[t].path \in {PathId7, PathId8, <<"1", "2">>, <<"7", "/", "a", "1", ".", "m", "k", "v">>, <<"A", "g", "A", "D", "x", "y", "7", "/", "x">>, <<"A", "g", ".", "D", "x", "y", "7">>}
       /\ task[t].query_hash \in {None, <<>>}

\* A request without details ends 400 at once: it never awaits the upstream,
\* selects no session and holds no adapter.
RefusedAtOnce ==
    \A t \in DOMAIN task :
        (task[t].pc # "idle" /\ NoDetails(t))
        => /\ task[t].pc = "done"
           /\ task[t].status = 400
           /\ task[t].raised = "HTTPBadRequest"
           /\ task[t].index = NoneInt
           /\ task[t].tg_connect = 0
           /\ ~task[t].sequencer
           /\ task[t].fetches = 0

\* The step that receives a request without details constructs no ByteStreamer
\* and leaves the cache as it is.
RefusalTouchesNothing ==
    \A t \in DOMAIN task :
        (task[t].pc = "idle" /\ task'[t].pc # "idle" /\ NoDetails(t)')
        => UNCHANGED <<class_cache, created, work_loads>>

\* C12: a request from which no object id can be extracted, or that has no hash
\* in path or query, fails with 400 (not 500) in both handlers, and for it no
\* session is selected, no adapter is created and no upstream call is made.
C12_MalformedRequest400 == [](RefusedAtOnce) /\ [][RefusalTouchesNothing]_vars

C12_Witness ==
    \E t \in DOMAIN task :
        /\ task[t].handler = "file"
        /\ task[t].path = PathId7
        /\ task[t].query_hash = None
        /\ task[t].status = 400
        /\ class_cache = <<>>

\* Task t holds a response media_streamer returned (not an exception).
Responded(t) ==
    /\ task[t].handler = "file"
    /\ task[t].pc \in {"stream", "done"}
    /\ task[t].status \in {200, 206, 416}

HasHeader(t, name, value) == <<name, value>> \in task[t].headers

\* C13 as stated: every response of media_streamer, 416 included, carries
\* Content-Disposition: attachment, Accept-Ranges: bytes and the Cache-Control
\* header.
C13_Original ==
    \A t \in DOMAIN task :
        Responded(t)
        => /\ HasHeader(t, "Content-Disposition", "attachment")
           /\ HasHeader(t, "Accept-Ranges", "bytes")
           /\ HasHeader(t, "Cache-Control", "no-cache, no-store, must-revalidate")

\* C13 amended: every 200 and 206 response carries the three headers; the 416
\* response carries Content-Range: bytes */<size> and no other header.
C13_StreamResponseHeaders ==
    \A t \in DOMAIN task :
        Responded(t)
        => IF task[t].status = 416
           THEN task[t].headers =
                   { <<"Content-Range",
                       BytesSp \o <<"*", "/">> \o PyStr(task[t].file_size)>> }
           ELSE /\ HasHeader(t, "Content-Disposition", "attachment")
                /\ HasHeader(t, "Accept-Ranges", "bytes")
                /\ HasHeader(t, "Cache-Control", "no-cache, no-store, must-revalidate")

C13_Witness ==
    \E t \in DOMAIN task :
        /\ Responded(t)
        /\ task[t].status = 206
        /\ task[t].range_header = ClosedRange(1, 2)
        /\ HasHeader(t, "Cache-Control", "no-cache, no-store, must-revalidate")

\* A system exception met while the handler awaits.
SystemError(t) == task[t].raised \in { e.type : e \in UpstreamErrors }

\* C14 as stated: InvalidHash gives 403, FIleNotFound 404, an HTTP error of the
\* handler itself is re-raised unchanged, and every other exception gives 500
\* with the handler's fixed text.
C14_Original ==
    \A t \in DOMAIN task :
        task[t].pc = "done"
        => /\ task[t].raised = "InvalidHash" => task[t].status = 403
           /\ task[t].raised = "FIleNotFound" => task[t].status = 404
           /\ task[t].raised = "HTTPBadRequest" =>
                 /\ task[t].status = 400
                 /\ task[t].text = "Invalid URL format or missing hash."
           /\ SystemError(t) =>
                 /\ task[t].status = 500
                 /\ task[t].text = IF task[t].handler = "file"
                                   THEN "An internal server error occurred during streaming."
                                   ELSE "An internal server error occurred."

\* C14 amended: as stated, except that in file_stream_handler an AttributeError,
\* BadStatusLine or ConnectionResetError gives no 500: the handler logs it and
\* returns without a response. The 500 text never holds the exception's detail.
C14_ExceptionStatuses ==
    \A t \in DOMAIN task :
        task[t].pc = "done"
        => /\ task[t].raised = "InvalidHash" => task[t].status = 403
           /\ task[t].raised = "FIleNotFound" => task[t].status = 404
           /\ task[t].raised = "HTTPBadRequest" =>
                 /\ task[t].status = 400
                 /\ task[t].text = "Invalid URL format or missing hash."
           /\ SystemError(t) =>
                 IF /\ task[t].handler = "file"
                    /\ task[t].raised \in
                          {"AttributeError", "BadStatusLine", "ConnectionResetError"}
                 THEN task[t].status = 0 /\ task[t].text = ""
                 ELSE /\ task[t].status = 500
                      /\ task[t].text # "upstream detail"
                      /\ task[t].text =
                            IF task[t].handler = "file"
                            THEN "An internal server error occurred during streaming."
                            ELSE "An internal server error occurred."

C14_Witness ==
    /\ task[1].pc = "done"
    /\ task[1].handler = "watch"
    /\ task[1].raised = "FIleNotFound"
    /\ task[1].status = 404

\* C15: an AttributeError, BadStatusLine or ConnectionResetError raised while
\* file_stream_handler handles the request produces no HTTP error: the handler
\* ends with no status raised, and nothing further is done for the request.
C15_DisconnectNotAnError ==
    \A t \in DOMAIN task :
        (/\ task[t].handler = "file"
         /\ task[t].raised \in {"AttributeError", "BadStatusLine", "ConnectionResetError"})
        => /\ task[t].pc = "done"
           /\ task[t].status = 0
           /\ ~task[t].sequencer
           /\ task[t].sent = <<>>

C15_Witness ==
    \E t \in DOMAIN task :
        /\ task[t].handler = "file"
        /\ task[t].raised = "ConnectionResetError"
        /\ task[t].pc = "done"
        /\ task[t].status = 0

\* What a Range header that int() can parse stands for: <<from, until>>.
ParsedRange(range_header, file_size) ==
    { <<a, b>> : a \in { x \in 0..(MaxSize + 1) :
                           \E y \in 0..(MaxSize + 1) : range_header = ClosedRange(x, y) },
                 b \in { y \in 0..(MaxSize + 1) :
                           \E x \in 0..(MaxSize + 1) : range_header = ClosedRange(x, y) } }
    \cup { <<a, file_size - 1>> : a \in { x \in 0..(MaxSize + 1) :
                                            range_header = OpenRange(x) } }
    \cup (IF range_header = <<"b", "y", "t", "e", "s", "=", "0", "-", "1", "-", "x">> THEN {<<0, 1>>} ELSE {})
    \cup (IF range_header \in {<<"b", "y", "t", "e", "s", "=", " ", "1", " ", "-", " ", "2", " ">>,
                               <<"b", "y", "t", "e", "s", "=", "+", "1", "-", "2">>}
          THEN {<<1, 2>>} ELSE {})

\* Task t got the properties of its object and supplied the object's hash.
Authorised(t) == PropertiesReturned(t) /\ task[t].secure_hash = TrueHash(t)

\* C16: without a Range header, or with an empty one, the status is 200 with
\* from_bytes = 0 and until_bytes = size - 1; the status is 206 exactly when the
\* header is present, parses and satisfies 0 <= from <= until < size, and that
\* response carries Content-Range: bytes <from>-<until>/<size>.
C16_StatusByRange ==
    \A t \in DOMAIN task :
        Authorised(t)
        => LET size == media[task[t].file_id].file_size
               ok == { r \in ParsedRange(task[t].range_header, size) :
                         0 <= r[1] /\ r[1] <= r[2] /\ r[2] < size }
           IN  /\ task[t].range_header \in {None, <<>>} =>
                     /\ task[t].status = 200
                     /\ task[t].from_bytes = 0
                     /\ task[t].until_bytes = size - 1
               /\ task[t].status = 206 <=> ok # {}
               /\ \A r \in ok :
                     /\ task[t].from_bytes = r[1]
                     /\ task[t].until_bytes = r[2]
                     /\ HasHeader(t, "Content-Range",
                                  BytesSp \o PyStr(r[1]) \o <<"-">> \o PyStr(r[2])
                                  \o <<"/">> \o PyStr(size))

C16_Witness ==
    \E t \in DOMAIN task :
        /\ Authorised(t)
        /\ task[t].range_header = <<>>
        /\ task[t].file_size = MaxSize
        /\ task[t].status = 200
        /\ task[t].pc = "done"
        /\ Len(task[t].sent) = MaxSize

\* A request whose parsed range violates one of the three conditions is
\* answered 416 and nothing of the chunk plan or the sequencer exists for it.
UnsatisfiableStops ==
    \A t \in DOMAIN task :
        (/\ Authorised(t)
         /\ \E r \in ParsedRange(task[t].range_header, media[task[t].file_id].file_size) :
               ~(/\ 0 <= r[1] /\ r[1] < media[task[t].file_id].file_size
                 /\ 0 <= r[2] /\ r[2] < media[task[t].file_id].file_size
                 /\ r[1] <= r[2]))
        => /\ task[t].status = 416
           /\ task[t].pc = "done"
           /\ ~task[t].sequencer
           /\ task[t].plan = IdleTask.plan
           /\ task[t].current_part = 0
           /\ task[t].fetches = 0
           /\ task[t].sent = <<>>

\* After a 416 the task takes no step but its end.
Nothing416Follows ==
    \A t \in DOMAIN task :
        task[t].status = 416 => (task'[t] = task[t] \/ task'[t] = IdleTask)

\* C17: a parsed Range that violates 0 <= from < size, 0 <= until < size or
\* from <= until is answered 416 with no further processing: no chunk plan, no
\* sequencer, no chunk fetch.
C17_UnsatisfiableNoProcessing == [](UnsatisfiableStops) /\ [][Nothing416Follows]_vars

C17_Witness ==
    \E t \in DOMAIN task :
        /\ Authorised(t)
        /\ task[t].range_header = ClosedRange(0, MaxSize)
        /\ task[t].file_size = MaxSize
        /\ task[t].status = 416
        /\ task[t].fetches = 0

\* The arithmetic C18 states of a plan p derived from from_bytes, until_bytes
\* and chunk size cs.
PlanArithmetic(from_bytes, until_bytes, cs, p) ==
    /\ p.chunk_size = cs
    /\ p.offset % cs = 0
    /\ p.offset <= from_bytes /\ from_bytes < p.offset + cs
    /\ p.first_part_cut = from_bytes - p.offset
    /\ 0 <= p.first_part_cut /\ p.first_part_cut < cs
    /\ 1 <= p.last_part_cut /\ p.last_part_cut <= cs
    /\ p.part_count = (until_bytes \div cs) - (p.offset \div cs) + 1
    /\ p.part_count = (until_bytes + 1 - p.offset + cs - 1) \div cs
    /\ p.part_count * cs - p.first_part_cut - (cs - p.last_part_cut)
          = until_bytes - from_bytes + 1

\* Byte positions around the first chunk boundaries of the program's chunk size.
PlanProbes ==
    {0, 1, chunk_size - 1, chunk_size, chunk_size + 1, 2 * chunk_size - 1,
     2 * chunk_size, 3 * chunk_size + 5}

\* C18: every plan derived from 0 <= from <= until has an aligned offset with
\* offset <= from < offset + chunk_size, 0 <= first_part_cut < chunk_size,
\* 1 <= last_part_cut <= chunk_size, part_count equal to
\* ceil((until + 1 - offset) / chunk_size), and a sequencer output of
\* until - from + 1 bytes, the Content-Length; chunk size 1024, from 1500,
\* until 3100 gives 1024, 476, 29, 3 and 1601 bytes.
C18_PlanArithmetic ==
    /\ \A t \in DOMAIN task :
          (/\ task[t].sequencer
           /\ 0 <= task[t].from_bytes /\ task[t].from_bytes <= task[t].until_bytes)
          => /\ PlanArithmetic(task[t].from_bytes, task[t].until_bytes,
                               ChunkSize, task[t].plan)
             /\ task[t].content_length = task[t].until_bytes - task[t].from_bytes + 1
             /\ task[t].pc = "done" => Len(task[t].sent) = task[t].content_length
    /\ ChunkPlan(1500, 3100, 1024) =
          [offset |-> 1024, first_part_cut |-> 476, last_part_cut |-> 29,
           part_count |-> 3, chunk_size |-> 1024]
    /\ 3 * 1024 - 476 - (1024 - 29) = 1601
    /\ \A f \in PlanProbes, u \in PlanProbes :
          f <= u => PlanArithmetic(f, u, chunk_size, ChunkPlan(f, u, chunk_size))

C18_Witness ==
    \E t \in DOMAIN task :
        /\ task[t].pc = "done"
        /\ task[t].sequencer
        /\ task[t].from_bytes = ChunkSize - 1
        /\ task[t].until_bytes = 2 * ChunkSize
        /\ task[t].plan.part_count = 3
        /\ task[t].plan.first_part_cut = ChunkSize - 1
        /\ task[t].plan.last_part_cut = 1
        /\ Len(task[t].sent) = ChunkSize + 2

\* C19: no step of request handling writes work_loads, so every request, however
\* many are in flight, selects the same session.
C19_WorkLoadsNeverWritten ==
    /\ [][work_loads' = work_loads]_vars
    /\ [](\A t, u \in DOMAIN task :
            (task[t].index # NoneInt /\ task[u].index # NoneInt)
            => task[t].index = task[u].index)
    /\ [][\A t, u \in DOMAIN task :
            (task[t].index # NoneInt /\ task'[u].index # NoneInt)
            => task'[u].index = task[t].index]_vars

C19_Witness ==
    /\ task[1].pc = "stream" /\ task[2].pc = "props"
    /\ task[1].fetches = 1
    /\ task[1].index = task[2].index
    /\ \E i \in 1..Len(work_loads) :
          work_loads[i] = <<task[1].index, 0>>

\* Telegram's answer says the user is in the channel: both lookups succeeded
\* and the status is neither BANNED nor LEFT.
CurrentMember(reply) ==
    /\ reply.chat = "ok"
    /\ reply.member \in ChatMemberStatus \ {"BANNED", "LEFT"}

\* The channels checked so far for task b whose answer is not a membership.
NotMemberOf(b) ==
    { i \in 1..Len(btask[b].replies) : ~CurrentMember(btask[b].replies[i]) }

\* The handler of task b was stopped at the gate: the list was not empty, or
\* the check raised.
Gated(b) ==
    /\ btask[b].pc \in {"prompt", "done"}
    /\ btask[b].subscription_buttons # <<>> \/ NotMemberOf(b) # {}

\* One row per channel that is not a membership, at every point of the loop;
\* so the returned list is empty exactly when every channel is a membership.
RowPerChannel ==
    \A b \in DOMAIN btask :
        /\ Len(btask[b].subscription_buttons) = Cardinality(NotMemberOf(b))
        /\ (btask[b].pc \notin {"idle", "is_subscribed"} /\ Len(AUTH_CHANNEL) > 0)
           => /\ Len(btask[b].replies) = Len(AUTH_CHANNEL)
              /\ btask[b].subscription_buttons = <<>>
                    <=> \A i \in 1..Len(AUTH_CHANNEL) :
                            CurrentMember(btask[b].replies[i])

\* A gated handler has sent nothing but the prompt or the apology.
GatedSendsNothing ==
    \A b \in DOMAIN btask :
        Gated(b)
        => /\ btask[b].log_msg = NoneInt
           /\ \A i \in 1..Len(outbox) : outbox[i].kind \in {"join", "apology"}

\* A step of a gated handler leaves the registry and the log channel as they are.
GatedWritesNothing ==
    \A b \in DOMAIN btask :
        (Gated(b) \/ Gated(b)')
        => /\ db_users' = db_users
           /\ media' = media

\* C20: is_subscribed returns an empty list exactly when every lookup succeeded
\* with a status that is neither BANNED nor LEFT, and one row per other channel;
\* when the list is not empty or the check raises, start adds no user and sends
\* no welcome, and stream_start copies nothing to the log channel and sends no
\* links.
C20_GateFailsClosed ==
    /\ [](RowPerChannel /\ GatedSendsNothing)
    /\ [][GatedWritesNothing]_vars

C20_Witness ==
    /\ btask[1].pc = "done"
    /\ btask[1].handler = "stream_start"
    /\ Len(btask[1].replies) = 2
    /\ btask[1].replies[1].member = "RESTRICTED"
    /\ btask[1].replies[2].chat = "Exception"
    /\ Len(btask[1].subscription_buttons) = 1
    /\ Len(outbox) = 1 /\ outbox[1].kind = "join" /\ outbox[1].rows = 2
    /\ media = Store(1)

\* C21 as stated: every request that reaches the chunk sequencer has
\* 0 <= from_bytes <= until_bytes < file_size, req_length >= 1 and
\* part_count >= 1, for every object size including 0.
C21_Original ==
    \A t \in DOMAIN task :
        task[t].sequencer
        => /\ 0 <= task[t].from_bytes
           /\ task[t].from_bytes <= task[t].until_bytes
           /\ task[t].until_bytes < task[t].file_size
           /\ task[t].content_length >= 1
           /\ task[t].plan.part_count >= 1

\* C22: the download and the watch link stream_start builds for log message n,
\* a file name and the hash h are parsed by extract_file_details back to (n, h),
\* whatever the file name holds; the download link reaches file_stream_handler
\* and the watch link stream_page_handler, and neither is refused.
C22_LinkRoundTrip ==
    \A t \in DOMAIN task :
        task[t].pc # "idle"
        => /\ task[t].file_id = btask[1].log_msg
           /\ task[t].file_id >= 1
           /\ task[t].secure_hash = Slice(btask[1].file.unique_id, 0, 6)
           /\ Len(task[t].secure_hash) = 6
           /\ task[t].handler \in {"file", "watch"}
           /\ task[t].handler = "file"
                 => task[t].path \in { MatchInfoPath(btask[1].download_url, d) :
                                           d \in BOOLEAN }
           /\ task[t].handler = "watch"
                 => task[t].path \in { MatchInfoPath(btask[1].stream_url, d) :
                                           d \in BOOLEAN }
           /\ task[t].status \notin {400, 403, 404}
           /\ task[t].pc = "done" => task[t].status = 200

C22_Witness ==
    /\ task[1].pc = "done"
    /\ task[1].handler = "file"
    /\ task[1].file_id = 1234567
    /\ btask[1].file.file_name = <<"1", "2", " ", "3">>
    /\ task[1].path = <<"1", "2", "3", "4", "5", "6", "7", "/", "1", "2", "+", "3">>
    /\ btask[1].download_url = <<"h", "t", "t", "p", ":", "/", "/", "h", "/", "1", "2", "3", "4", "5", "6", "7", "/", "1", "2", "+", "3", "?", "h", "a", "s", "h", "=", "1", "2", "3", "4", "5", "6">>
    /\ task[1].secure_hash = <<"1", "2", "3", "4", "5", "6">>
    /\ task[1].status = 200

\* C23 as stated: after any interleaving of concurrent start handlers the
\* registry holds at most one record per user id and the new-user log message
\* is sent at most once per user.
C23_Original ==
    \A u \in Users :
        /\ Cardinality({ i \in 1..Len(db_users) : db_users[i].id = u }) <= 1
        /\ Cardinality({ i \in 1..Len(outbox) :
                            outbox[i].kind = "new_user" /\ outbox[i].user = u }) <= 1

\* C24 as stated, over any sequence of add_user, ban_user, unban_user and
\* delete_user: a newly added user is not banned; is_user_banned(u) is true
\* exactly when u exists and the last ban_user or unban_user applied to u since
\* it was added was ban_user; it is False for a user that does not exist; and
\* ban_user and unban_user return True exactly when they changed the flag of an
\* existing user.
C24_Original ==
    \A b \in DOMAIN btask :
        /\ btask[b].call = "add_user" => ~is_user_banned(db_users, btask[b].user_id)
        /\ \A u \in Users :
              /\ is_user_banned(db_users, u) <=> btask[b].ledger[u] = "banned"
              /\ is_user_exist(db_users, u) <=> btask[b].ledger[u] # "absent"
              /\ ~is_user_exist(db_users, u) => ~is_user_banned(db_users, u)
        /\ btask[b].call = "ban_user"
              => (btask[b].returned <=> btask[b].existed /\ ~btask[b].was_banned)
        /\ btask[b].call = "unban_user"
              => (btask[b].returned <=> btask[b].existed /\ btask[b].was_banned)

====
